---- MODULE Spec2Model ----
(***************************************************************************)
(* Model of src/src/train.py: the training entry point main(args) and the  *)
(* helper train_model(model, args, logger).  The program is sequential;    *)
(* pc is the position of the single thread of control inside main and      *)
(* train_model, and every statement of the two functions is one action.    *)
(* Calls into the framework (pathlib, pytorch_lightning, torch, pl_model,  *)
(* utils) are recorded in the call log `calls` in the order they are made. *)
(***************************************************************************)
EXTENDS Integers, Sequences, FiniteSets, TLC

\* ------------------------------------------------------------------ bounds
MaxSeed == 2
MaxPatience == 2
MaxTopK == 2

\* --------------------------------------------------- program constants
DefaultSeed == 42
Precision16 == 16
Precision32 == 32

\* ------------------------------------------------------------ value sets
Seeds == (0..MaxSeed) \cup {DefaultSeed}
Patiences == (-1)..MaxPatience
TopKs == 0..MaxTopK

\* A path is the sequence of its components, relative to the working
\* directory <<>>, which always exists.
OutputDirs == {<<"out">>, <<"a", "out">>}
Nodes == {<<"a">>, <<"out">>, <<"a", "out">>}
Kinds == {"absent", "dir", "file"}

Parent(p) == SubSeq(p, 1, Len(p) - 1)

KindOf(f, p) == IF p = <<>> THEN "dir" ELSE f[p]

\* File systems the program can be started in: nothing exists below a
\* path that is not a directory.
WellFormedFs(f) == \A p \in Nodes : f[p] # "absent" => KindOf(f, Parent(p)) = "dir"

None == [cls |-> "None"]

\* The parsed command line (add_model_specific_args): the options main and
\* train_model read.
ArgSets ==
    [seed : Seeds,
     early_stopping_patience : Patiences,
     save_top_k : TopKs,
     output_dir : OutputDirs,
     fp16 : BOOLEAN,
     wandb : BOOLEAN]

VARIABLES
    args,                 \* the argparse namespace handed to main
    fs,                   \* the file system: path -> kind
    pc,                   \* position in main / train_model
    calls,                \* log of the external calls made so far
    model,                \* main's local `model`
    logger,               \* main's local `logger`
    checkpoint_callback,  \* train_model's local
    logging_callback,     \* train_model's local
    extra_callbacks,      \* train_model's local list
    precision,            \* train_model's local (0: not yet bound)
    trainer,              \* the pl.Trainer object
    saved,                \* what pickle_save has written: <<object, path>>
    result,               \* main's return value
    raised                \* the exception that ended main, or "none"

vars == <<args, fs, pc, calls, model, logger, checkpoint_callback,
          logging_callback, extra_callbacks, precision, trainer, saved,
          result, raised>>

\* ------------------------------------------------------- pure helpers

\* Path(args.output_dir).mkdir(exist_ok=True), parents left at its default
\* False: "ok" when the directory can be made or is already a directory,
\* and otherwise the exception pathlib raises.
MkdirNoExistOk(f, p) ==
    IF KindOf(f, Parent(p)) = "absent" THEN "FileNotFoundError"
    ELSE IF KindOf(f, Parent(p)) = "file" THEN "NotADirectoryError"
    ELSE IF f[p] = "absent" THEN "ok"
    ELSE "FileExistsError"

Mkdir(f, p) ==
    IF KindOf(f, Parent(p)) = "absent" THEN "FileNotFoundError"
    ELSE IF KindOf(f, Parent(p)) = "file" THEN "NotADirectoryError"
    ELSE IF f[p] = "absent" THEN "ok"
    ELSE IF f[p] = "dir" THEN "ok"
    ELSE "FileExistsError"

\* RumourDetection(args): the model wrapper; its class lives in pl_model,
\* so the object is kept symbolic.
RumourDetection(a) == [cls |-> "RumourDetection", args |-> a]

Attr(obj, name) == <<obj, name>>

WandbLogger == [cls |-> "WandbLogger", name |-> "twitter", project |-> "NLP"]
DefaultLogger == [cls |-> "True"]

\* The value each seeding call is given.
SeedArgZero(a) == 0

SeedArg(a) == a.seed

\* An entry of the call log: the function called, and for the seeding
\* functions the seed it was given.
Call(fn) == [fn |-> fn]

SeedCall(fn, a) == [fn |-> fn, seed |-> SeedArg(a)]

ModelCheckpointMinLoss(a) ==
    [cls |-> "ModelCheckpoint", dirpath |-> a.output_dir,
     filename |-> "{f1_score:.4f}", monitor |-> "val_loss", mode |-> "min",
     save_top_k |-> a.save_top_k]

ModelCheckpoint(a) ==
    [cls |-> "ModelCheckpoint", dirpath |-> a.output_dir,
     filename |-> "{f1_score:.4f}", monitor |-> "f1_score", mode |-> "max",
     save_top_k |-> a.save_top_k]

LoggingCallback == [cls |-> "LoggingCallback"]

EarlyStopping(a) ==
    [cls |-> "EarlyStopping", monitor |-> "f1_score", mode |-> "max",
     patience |-> a.early_stopping_patience, verbose |-> TRUE]

WantsEarlyStoppingAlways(a) == TRUE

WantsEarlyStoppingNonNegative(a) == a.early_stopping_patience >= 0

WantsEarlyStopping(a) == a.early_stopping_patience > 0

PrecisionOf(a) == IF a.fp16 THEN Precision16 ELSE Precision32

Trainer(cbs, lg, prec) ==
    [cls |-> "Trainer", weights_summary |-> "top", callbacks |-> cbs,
     logger |-> lg, precision |-> prec, state |-> "initialized"]

HasCallback(cbs, c) == \E i \in 1..Len(cbs) : cbs[i].cls = c

\* ------------------------------------------------------------------ Init
Init ==
    /\ args \in ArgSets
    /\ fs \in {f \in [Nodes -> Kinds] : WellFormedFs(f)}
    /\ pc = "main_mkdir"
    /\ calls = <<>>
    /\ model = None
    /\ logger = None
    /\ checkpoint_callback = None
    /\ logging_callback = None
    /\ extra_callbacks = <<>>
    /\ precision = 0
    /\ trainer = None
    /\ saved = <<>>
    /\ result = None
    /\ raised = "none"

\* --------------------------------------------------------------- actions
\* Every action is one statement; `Raise(e)` ends main with exception e.
Raise(e) ==
    /\ raised' = e
    /\ pc' = "raised"

\* main, lines 108-109: odir = Path(args.output_dir); odir.mkdir(exist_ok=True)
MainMkdir ==
    /\ pc = "main_mkdir"
    /\ calls' = Append(calls, Call("mkdir"))
    /\ LET r == Mkdir(fs, args.output_dir) IN
         IF r = "ok"
         THEN /\ fs' = [fs EXCEPT ![args.output_dir] = "dir"]
              /\ pc' = "main_init_model"
              /\ UNCHANGED raised
         ELSE /\ Raise(r)
              /\ UNCHANGED fs
    /\ UNCHANGED <<args, model, logger, checkpoint_callback, logging_callback,
                   extra_callbacks, precision, trainer, saved, result>>

\* main, line 112: model = RumourDetection(args)
MainInitModel ==
    /\ pc = "main_init_model"
    /\ calls' = Append(calls, Call("RumourDetection"))
    /\ model' = RumourDetection(args)
    /\ pc' = "main_init_logger"
    /\ UNCHANGED <<args, fs, logger, checkpoint_callback, logging_callback,
                   extra_callbacks, precision, trainer, saved, result, raised>>

\* main, lines 115-119: the logger is a WandbLogger or the framework default
MainInitLogger ==
    /\ pc = "main_init_logger"
    /\ logger' = IF args.wandb THEN WandbLogger ELSE DefaultLogger
    /\ pc' = "seed_everything"
    /\ UNCHANGED <<args, fs, calls, model, checkpoint_callback,
                   logging_callback, extra_callbacks, precision, trainer,
                   saved, result, raised>>

\* One seeding statement of train_model: it calls fn with the seed and
\* moves on to the statement at `next`.
SeedStep(here, fn, next) ==
    /\ pc = here
    /\ calls' = Append(calls, SeedCall(fn, args))
    /\ pc' = next
    /\ UNCHANGED <<args, fs, model, logger, checkpoint_callback,
                   logging_callback, extra_callbacks, precision, trainer,
                   saved, result, raised>>

\* train_model, line 64
PlSeedEverything == SeedStep("seed_everything", "pl.seed_everything", "random_seed")

\* train_model, line 65
RandomSeed == SeedStep("random_seed", "random.seed", "manual_seed")

\* train_model, line 66
TorchManualSeed == SeedStep("manual_seed", "torch.manual_seed", "cuda_manual_seed")

\* train_model, line 67
TorchCudaManualSeed ==
    SeedStep("cuda_manual_seed", "torch.cuda.manual_seed", "cuda_manual_seed_all")

\* train_model, line 68
TorchCudaManualSeedAll ==
    SeedStep("cuda_manual_seed_all", "torch.cuda.manual_seed_all", "checkpoint_callback")

\* train_model, lines 71-73
MakeCheckpointCallback ==
    /\ pc = "checkpoint_callback"
    /\ calls' = Append(calls, Call("ModelCheckpoint"))
    /\ checkpoint_callback' = ModelCheckpoint(args)
    /\ pc' = "logging_callback"
    /\ UNCHANGED <<args, fs, model, logger, logging_callback, extra_callbacks,
                   precision, trainer, saved, result, raised>>

\* train_model, lines 76-78
MakeLoggingCallback ==
    /\ pc = "logging_callback"
    /\ calls' = Append(calls, Call("LoggingCallback"))
    /\ logging_callback' = LoggingCallback
    /\ extra_callbacks' = <<LoggingCallback, checkpoint_callback>>
    /\ pc' = "early_stopping"
    /\ UNCHANGED <<args, fs, model, logger, checkpoint_callback, precision,
                   trainer, saved, result, raised>>

\* train_model, lines 80-87
MakeEarlyStopping ==
    /\ pc = "early_stopping"
    /\ IF WantsEarlyStopping(args)
       THEN /\ calls' = Append(calls, Call("EarlyStopping"))
            /\ extra_callbacks' = Append(extra_callbacks, EarlyStopping(args))
       ELSE UNCHANGED <<calls, extra_callbacks>>
    /\ pc' = "precision"
    /\ UNCHANGED <<args, fs, model, logger, checkpoint_callback,
                   logging_callback, precision, trainer, saved, result, raised>>

\* train_model, lines 89-92
SetPrecision ==
    /\ pc = "precision"
    /\ precision' = PrecisionOf(args)
    /\ pc' = "trainer"
    /\ UNCHANGED <<args, fs, calls, model, logger, checkpoint_callback,
                   logging_callback, extra_callbacks, trainer, saved, result,
                   raised>>

\* train_model, lines 94-100
MakeTrainer ==
    /\ pc = "trainer"
    /\ calls' = Append(calls, Call("Trainer"))
    /\ trainer' = Trainer(extra_callbacks, logger, precision)
    /\ pc' = "fit"
    /\ UNCHANGED <<args, fs, model, logger, checkpoint_callback,
                   logging_callback, extra_callbacks, precision, saved, result,
                   raised>>

\* train_model, line 102: trainer.fit(model) is entered
FitCall ==
    /\ pc = "fit"
    /\ calls' = Append(calls, Call("fit"))
    /\ trainer' = [trainer EXCEPT !.state = "fitting"]
    /\ pc' = "fitting"
    /\ UNCHANGED <<args, fs, model, logger, checkpoint_callback,
                   logging_callback, extra_callbacks, precision, saved, result,
                   raised>>

\* Where control goes when trainer.fit returns: train_model returns the
\* trainer (line 104) and main goes on at line 123.
AfterFitSkipsSave == "test"

AfterFit == "pickle_save"

\* train_model, lines 102-104 and main, line 121: fit returns, having run
\* to the end or having been stopped by an EarlyStopping callback
FitReturn ==
    /\ pc = "fitting"
    /\ \E early \in BOOLEAN :
         /\ early => HasCallback(trainer.callbacks, "EarlyStopping")
         /\ trainer' = [trainer EXCEPT
                          !.state = IF early THEN "early_stopped" ELSE "finished"]
    /\ calls' = Append(calls, Call("fit.return"))
    /\ pc' = AfterFit
    /\ UNCHANGED <<args, fs, model, logger, checkpoint_callback,
                   logging_callback, extra_callbacks, precision, saved, result,
                   raised>>

\* What an exception out of trainer.fit does to main: neither train_model
\* nor main has a try block, so it ends main.
FitRaiseSwallowed ==
    /\ raised' = "none"
    /\ pc' = "pickle_save"

FitRaiseEffect == Raise("fit")

\* train_model, line 102: trainer.fit raises
FitRaise ==
    /\ pc = "fitting"
    /\ calls' = Append(calls, Call("fit.raise"))
    /\ trainer' = [trainer EXCEPT !.state = "failed"]
    /\ FitRaiseEffect
    /\ UNCHANGED <<args, fs, model, logger, checkpoint_callback,
                   logging_callback, extra_callbacks, precision, saved, result>>

\* main, line 123: pickle_save(model.hparams, model.hparams_save_path)
PickleSave ==
    /\ pc = "pickle_save"
    /\ calls' = Append(calls, Call("pickle_save"))
    /\ \/ /\ saved' = Append(saved, <<Attr(model, "hparams"),
                                      Attr(model, "hparams_save_path")>>)
          /\ pc' = "test"
          /\ UNCHANGED raised
       \/ /\ Raise("pickle_save")
          /\ UNCHANGED saved
    /\ UNCHANGED <<args, fs, model, logger, checkpoint_callback,
                   logging_callback, extra_callbacks, precision, trainer, result>>

TestCallSkipped ==
    /\ pc = "test"
    /\ pc' = "return"
    /\ UNCHANGED <<args, fs, calls, model, logger, checkpoint_callback,
                   logging_callback, extra_callbacks, precision, trainer, saved,
                   result, raised>>

\* main, line 124: trainer.test(verbose=False, ckpt_path="best") is entered
TestCall ==
    /\ pc = "test"
    /\ calls' = Append(calls, Call("test"))
    /\ trainer' = [trainer EXCEPT !.state = "testing"]
    /\ pc' = "testing"
    /\ UNCHANGED <<args, fs, model, logger, checkpoint_callback,
                   logging_callback, extra_callbacks, precision, saved, result,
                   raised>>

\* main, line 124: trainer.test returns or raises
TestReturn ==
    /\ pc = "testing"
    /\ \/ /\ calls' = Append(calls, Call("test.return"))
          /\ trainer' = [trainer EXCEPT !.state = "tested"]
          /\ pc' = "return"
          /\ UNCHANGED raised
       \/ /\ calls' = Append(calls, Call("test.raise"))
          /\ trainer' = [trainer EXCEPT !.state = "failed"]
          /\ Raise("test")
    /\ UNCHANGED <<args, fs, model, logger, checkpoint_callback,
                   logging_callback, extra_callbacks, precision, saved, result>>

\* main, line 125: return model
MainReturn ==
    /\ pc = "return"
    /\ result' = model
    /\ pc' = "done"
    /\ UNCHANGED <<args, fs, calls, model, logger, checkpoint_callback,
                   logging_callback, extra_callbacks, precision, trainer, saved,
                   raised>>

Next ==
    \/ MainMkdir
    \/ MainInitModel
    \/ MainInitLogger
    \/ PlSeedEverything
    \/ RandomSeed
    \/ TorchManualSeed
    \/ TorchCudaManualSeed
    \/ TorchCudaManualSeedAll
    \/ MakeCheckpointCallback
    \/ MakeLoggingCallback
    \/ MakeEarlyStopping
    \/ SetPrecision
    \/ MakeTrainer
    \/ FitCall
    \/ FitReturn
    \/ FitRaise
    \/ PickleSave
    \/ TestCall
    \/ TestReturn
    \/ MainReturn

Spec == Init /\ [][Next]_vars

\* ---------------------------------------------------------------- claims
SeedFns == {"pl.seed_everything", "random.seed", "torch.manual_seed",
            "torch.cuda.manual_seed", "torch.cuda.manual_seed_all"}

\* The calls that construct a callback or the trainer, or start training.
ConstructionFns == {"ModelCheckpoint", "LoggingCallback", "EarlyStopping",
                    "Trainer", "fit"}

\* How often fn has been called, and the position of its first call in the
\* log (0: never called).
Count(fn) == Cardinality({i \in 1..Len(calls) : calls[i].fn = fn})

Index(fn) == IF \E i \in 1..Len(calls) : calls[i].fn = fn
             THEN CHOOSE i \in 1..Len(calls) :
                    calls[i].fn = fn /\ \A j \in 1..(i - 1) : calls[j].fn # fn
             ELSE 0

Called(ev) == Index(ev) > 0

Before(e1, e2) == Called(e1) /\ Called(e2) /\ Index(e1) < Index(e2)

\* fn was called with args.seed somewhere among the first n calls.
SeededWithin(fn, n) ==
    \E j \in 1..n : calls[j].fn = fn /\ calls[j].seed = args.seed

Completed == pc = "done"

MkdirErrors == {"FileNotFoundError", "NotADirectoryError", "FileExistsError"}

\* C1: in every run of main that completes without an exception,
\* trainer.fit is called exactly once and trainer.test exactly once, and
\* trainer.test is never started before trainer.fit has returned.
C1_FitThenTestOnce ==
    /\ Completed => /\ raised = "none"
                    /\ Count("fit") = 1 /\ Count("fit.return") = 1
                    /\ Count("test") = 1 /\ Count("test.return") = 1
    /\ Called("test") => Before("fit.return", "test")

C1_Witness ==
    /\ Completed
    /\ Count("fit") = 1
    /\ Count("test") = 1
    /\ trainer.state = "tested"

\* C2 as stated: for every argument set the callbacks list handed to the
\* trainer holds exactly three callbacks: logging, model-checkpoint and
\* early-stopping.
C2_AlwaysThreeCallbacks ==
    trainer.cls = "Trainer" =>
        /\ Len(trainer.callbacks) = 3
        /\ {trainer.callbacks[i].cls : i \in 1..Len(trainer.callbacks)}
             = {"LoggingCallback", "ModelCheckpoint", "EarlyStopping"}

\* C2 (amended): the callbacks list handed to the trainer is the logging
\* callback, then the model-checkpoint callback, then the early-stopping
\* callback when args.early_stopping_patience > 0 (three callbacks) and
\* nothing more otherwise (two callbacks).
C2_TwoOrThreeCallbacks ==
    trainer.cls = "Trainer" =>
        /\ trainer.callbacks[1].cls = "LoggingCallback"
        /\ trainer.callbacks[2].cls = "ModelCheckpoint"
        /\ IF args.early_stopping_patience > 0
           THEN /\ Len(trainer.callbacks) = 3
                /\ trainer.callbacks[3].cls = "EarlyStopping"
                /\ Count("EarlyStopping") = 1
           ELSE /\ Len(trainer.callbacks) = 2
                /\ Count("EarlyStopping") = 0
        /\ Count("LoggingCallback") = 1
        /\ Count("ModelCheckpoint") = 1

C2_Witness ==
    /\ trainer.cls = "Trainer"
    /\ args.early_stopping_patience = -1
    /\ Len(trainer.callbacks) = 2

\* C3: an EarlyStopping callback is passed to the trainer exactly when
\* args.early_stopping_patience > 0, and then its patience is
\* args.early_stopping_patience; with -1 and with 0 there is none and the
\* run never early-stops.
C3_EarlyStoppingIffPositivePatience ==
    trainer.cls = "Trainer" =>
        /\ HasCallback(trainer.callbacks, "EarlyStopping")
             <=> args.early_stopping_patience > 0
        /\ \A i \in 1..Len(trainer.callbacks) :
             trainer.callbacks[i].cls = "EarlyStopping" =>
               trainer.callbacks[i].patience = args.early_stopping_patience
        /\ args.early_stopping_patience <= 0 => trainer.state # "early_stopped"

C3_Witness ==
    /\ trainer.cls = "Trainer"
    /\ args.early_stopping_patience = MaxPatience
    /\ HasCallback(trainer.callbacks, "EarlyStopping")
    /\ trainer.state = "early_stopped"

\* C4: in every run of main that completes, model.hparams is pickled to
\* model.hparams_save_path exactly once, after trainer.fit has returned and
\* before trainer.test is called.
C4_HparamsSavedBetweenFitAndTest ==
    /\ Completed =>
         /\ Count("pickle_save") = 1
         /\ saved = << <<Attr(model, "hparams"), Attr(model, "hparams_save_path")>> >>
    /\ Called("pickle_save") => Before("fit.return", "pickle_save")
    /\ Called("test") => Before("pickle_save", "test")

C4_Witness ==
    /\ Completed
    /\ Len(saved) = 1
    /\ Before("fit.return", "pickle_save")
    /\ Before("pickle_save", "test")

\* C5: in every call of train_model all five seeding operations are
\* performed with the same value args.seed, and all of them are complete
\* before any callback or the trainer is constructed and before
\* trainer.fit is called.
C5_SeededBeforeConstruction ==
    /\ \A i \in 1..Len(calls) :
         calls[i].fn \in SeedFns => calls[i].seed = args.seed
    /\ \A i \in 1..Len(calls) :
         calls[i].fn \in ConstructionFns =>
           \A fn \in SeedFns : SeededWithin(fn, i - 1)
    /\ \A fn \in SeedFns : Count(fn) <= 1

C5_Witness ==
    /\ Called("fit")
    /\ args.seed = DefaultSeed
    /\ \A fn \in SeedFns : SeededWithin(fn, Index("ModelCheckpoint") - 1)

\* C6: in every run of main the random number generators are seeded with
\* args.seed before the model (RumourDetection(args)) is instantiated.
C6_SeededBeforeModel ==
    \A i \in 1..Len(calls) :
        calls[i].fn = "RumourDetection" =>
          \A fn \in SeedFns : SeededWithin(fn, i - 1)

\* C7: the model-checkpoint callback writes into args.output_dir, keeps
\* args.save_top_k checkpoints and monitors "f1_score" in mode "max"; an
\* early-stopping callback, when present, monitors the same metric in the
\* same mode as the checkpoint callback.
C7_CheckpointAndEarlyStoppingAgree ==
    trainer.cls = "Trainer" =>
        /\ \E i \in 1..Len(trainer.callbacks) :
             /\ trainer.callbacks[i].cls = "ModelCheckpoint"
             /\ trainer.callbacks[i].dirpath = args.output_dir
             /\ trainer.callbacks[i].save_top_k = args.save_top_k
             /\ trainer.callbacks[i].monitor = "f1_score"
             /\ trainer.callbacks[i].mode = "max"
        /\ \A i, j \in 1..Len(trainer.callbacks) :
             /\ trainer.callbacks[i].cls = "ModelCheckpoint"
             /\ trainer.callbacks[j].cls = "EarlyStopping"
             => /\ trainer.callbacks[j].monitor = trainer.callbacks[i].monitor
                /\ trainer.callbacks[j].mode = trainer.callbacks[i].mode

C7_Witness ==
    /\ trainer.cls = "Trainer"
    /\ HasCallback(trainer.callbacks, "ModelCheckpoint")
    /\ HasCallback(trainer.callbacks, "EarlyStopping")
    /\ args.output_dir = <<"a", "out">>
    /\ args.save_top_k = MaxTopK

\* C8: if trainer.fit raises, main performs neither pickle_save nor
\* trainer.test and returns no model; pickle_save and trainer.test happen
\* only after trainer.fit has returned normally.
C8_FitFailureEndsMain ==
    /\ Called("fit.raise") =>
         /\ pc = "raised"
         /\ raised = "fit"
         /\ ~Called("pickle_save")
         /\ ~Called("test")
         /\ saved = <<>>
         /\ result.cls = "None"
    /\ Called("pickle_save") \/ Called("test") =>
         Called("fit.return") /\ ~Called("fit.raise")

C8_Witness ==
    /\ Called("fit.raise")
    /\ pc = "raised"
    /\ raised = "fit"

\* C9: main creates args.output_dir before anything else (model
\* instantiation, seeding, training, persistence); a directory that already
\* exists is not an error; when the creation fails (a missing parent, since
\* parents are not created) the model is never instantiated and
\* trainer.fit is never called.
C9_OutputDirFirst ==
    /\ [](calls # <<>> => calls[1].fn = "mkdir" /\ Count("mkdir") = 1)
    /\ [](Len(calls) > 1 => fs[args.output_dir] = "dir")
    /\ [](raised \in MkdirErrors =>
            /\ Len(calls) = 1
            /\ model.cls = "None"
            /\ ~Called("RumourDetection")
            /\ ~Called("fit"))
    /\ [][pc = "main_mkdir" /\ fs[args.output_dir] = "dir" =>
            pc' = "main_init_model" /\ raised' = "none" /\ fs' = fs]_vars
    /\ [][pc = "main_mkdir" /\ KindOf(fs, Parent(args.output_dir)) = "absent" =>
            pc' = "raised" /\ raised' = "FileNotFoundError" /\ fs' = fs]_vars

C9_Witness ==
    /\ pc = "raised"
    /\ raised = "FileNotFoundError"
    /\ args.output_dir = <<"a", "out">>
    /\ fs[<<"a">>] = "absent"
    /\ model.cls = "None"

====
